---- MODULE Spec2Model ----
(***************************************************************************)
(* Model of the invite-redemption instruction of the sortition program     *)
(* (programs/sortition/src/contexts/use_invite.rs): the account            *)
(* constraints of UseGovernanceInvite and the handler                      *)
(* use_governance_invite, executed as one transaction that the runtime     *)
(* commits as a whole when the handler returns Ok and discards as a whole  *)
(* when account validation or the handler returns an error.                *)
(***************************************************************************)
EXTENDS Integers, Sequences, FiniteSets, TLC

\* ------------------------------------------------------------------ bounds

\* CitizenIndex::MAX_CITIZENS_PER_INDEX (PAGE_SIZE in the specification),
\* scaled down: its value is set outside use_invite.rs.
MAX_CITIZENS_PER_INDEX == 2

\* Citizen::MAX_NAME_LENGTH, scaled down: its value is set outside use_invite.rs.
MAX_NAME_LENGTH == 2

\* Clock::get()?.unix_timestamp ranges over 0..MaxTime.
MaxTime == 1

\* The number of transactions on one invite that are in flight together.
InFlight == 2

\* ------------------------------------------------------------- identifiers

Pools == {"p1", "p2"}
Members == {"m1", "m2", "m3"}
Invites == {"i1", "i2", "i3", "i4"}

\* The index pages of a pool that a transaction can pass as citizen_index:
\* the pages the pool's counter can select with these participants.
PageIdx == 0..(Cardinality(Members) \div MAX_CITIZENS_PER_INDEX)

\* Pubkey::default(), the sentinel of an index page that was never written.
DefaultKey == "default"

\* Option::None of GovernanceInvite.used_by.
None == "none"

\* A participant registered before the first transaction of the model
\* (only the pages of the environment of SpecOpen hold it).
Outsider == "m0"

\* member_token_account.amount of each participant.
TokenAmount(m) == CASE m = "m1" -> 0 [] m = "m2" -> 5 [] OTHER -> 9

\* A name of n bytes.
NameOfLen(n) == [j \in 1..n |-> "a"]

\* The instruction arguments (name, region, age_group, other_demographic)
\* drawn by the model: the largest values that pass every check, the
\* smallest value that fails each check, and one argument list that fails two.
Args ==
    { [name |-> NameOfLen(MAX_NAME_LENGTH), region |-> 7, age_group |-> 4, other_demographic |-> 3],
      [name |-> NameOfLen(MAX_NAME_LENGTH + 1), region |-> 7, age_group |-> 4, other_demographic |-> 3],
      [name |-> NameOfLen(MAX_NAME_LENGTH + 1), region |-> 8, age_group |-> 4, other_demographic |-> 3],
      [name |-> NameOfLen(MAX_NAME_LENGTH), region |-> 8, age_group |-> 4, other_demographic |-> 3],
      [name |-> NameOfLen(MAX_NAME_LENGTH), region |-> 7, age_group |-> 5, other_demographic |-> 3],
      [name |-> NameOfLen(MAX_NAME_LENGTH), region |-> 7, age_group |-> 4, other_demographic |-> 4] }

\* ------------------------------------------------------------------- state

VARIABLES
    now,      \* Clock::get()?.unix_timestamp
    pool,     \* pool[p]: the GovernancePool account of p
    invite,   \* invite[i]: the GovernanceInvite account i
    citizen,  \* citizen[<<p, m>>]: the Citizen account at the address derived from (p, m), when it exists
    index,    \* index[p][k]: the CitizenIndex account at the address derived from (p, k)
    last,     \* the transaction that has just run: its arguments, accounts, result and events
    inflight  \* the transactions submitted together, each with its result once it has run

vars == <<now, pool, invite, citizen, index, last, inflight>>

\* The accounts a transaction can write.
accounts == <<pool, invite, citizen, index>>

\* A CitizenIndex account before the handler has written it.
BlankIndex == [governance_pool |-> DefaultKey, citizens |-> <<>>, count |-> 0]

\* A GovernancePool without citizens.
EmptyPool == [total_citizens |-> 0, total_citizen_indices |-> 0]

NoCall ==
    [pool |-> None, invite |-> None, member |-> None, page |-> 0,
     args |-> [name |-> <<>>, region |-> 0, age_group |-> 0, other_demographic |-> 0],
     result |-> None, emitted |-> <<>>]

\* ------------------------------------------------------ account validation

\* PageIndexOf with a page one entry larger than the capacity of a page.
PageIndexOfWide(total_citizens) == total_citizens \div (MAX_CITIZENS_PER_INDEX + 1)

\* seeds of citizen_index: the page index derived from the pool's counter.
PageIndexOf(total_citizens) == total_citizens \div MAX_CITIZENS_PER_INDEX

\* InviteConstraints without the constraint on is_used.
InviteConstraintsNoUsed(inv, p, t) ==
    IF inv.governance_pool # p THEN "InvalidInvite"
    ELSE IF ~(t <= inv.expires_at) THEN "InviteExpired"
    ELSE "Ok"

\* InviteConstraints with < for <= in the constraint on expires_at.
InviteConstraintsStrict(inv, p, t) ==
    IF inv.governance_pool # p THEN "InvalidInvite"
    ELSE IF inv.is_used THEN "InviteAlreadyUsed"
    ELSE IF ~(t < inv.expires_at) THEN "InviteExpired"
    ELSE "Ok"

\* InviteConstraints without the constraint on governance_pool.
InviteConstraintsNoPool(inv, p, t) ==
    IF inv.is_used THEN "InviteAlreadyUsed"
    ELSE IF ~(t <= inv.expires_at) THEN "InviteExpired"
    ELSE "Ok"

\* The three constraints on the invite account, in the order they are written.
InviteConstraints(inv, p, t) ==
    IF inv.governance_pool # p THEN "InvalidInvite"
    ELSE IF inv.is_used THEN "InviteAlreadyUsed"
    ELSE IF ~(t <= inv.expires_at) THEN "InviteExpired"
    ELSE "Ok"

\* TryAccounts that takes a citizen_account that exists already
\* (init_if_needed for init).
TryAccountsNoInit(p, i, m, k) ==
    IF InviteConstraints(invite[i], p, now) # "Ok" THEN InviteConstraints(invite[i], p, now)
    ELSE IF k # PageIndexOf(pool[p].total_citizens) THEN "ConstraintSeeds"
    ELSE "Ok"

\* Account validation of UseGovernanceInvite. The generated try_accounts
\* runs the init constraint (the creation of citizen_account, which the
\* system program refuses for an address already in use) before the
\* constraints of the other accounts, and those in the order of the fields.
TryAccounts(p, i, m, k) ==
    IF <<p, m>> \in DOMAIN citizen THEN "AccountAlreadyInUse"
    ELSE IF InviteConstraints(invite[i], p, now) # "Ok" THEN InviteConstraints(invite[i], p, now)
    ELSE IF k # PageIndexOf(pool[p].total_citizens) THEN "ConstraintSeeds"
    ELSE "Ok"

\* ----------------------------------------------------------------- handler

\* ValidateInput with <= for < in the bound of region.
ValidateInputLoose(a) ==
    IF ~(Len(a.name) <= MAX_NAME_LENGTH) THEN "InvalidInput"
    ELSE IF ~(a.region <= 8) THEN "InvalidDemographic"
    ELSE IF ~(a.age_group < 5) THEN "InvalidDemographic"
    ELSE IF ~(a.other_demographic < 4) THEN "InvalidDemographic"
    ELSE "Ok"

\* "Validate input"
ValidateInput(a) ==
    IF ~(Len(a.name) <= MAX_NAME_LENGTH) THEN "InvalidInput"
    ELSE IF ~(a.region < 8) THEN "InvalidDemographic"
    ELSE IF ~(a.age_group < 5) THEN "InvalidDemographic"
    ELSE IF ~(a.other_demographic < 4) THEN "InvalidDemographic"
    ELSE "Ok"

\* InitCitizen with region and age_group assigned to each other's field.
InitCitizenSwapped(p, a) ==
    [name |-> a.name, governance_pool |-> p, is_eligible |-> TRUE,
     last_participation |-> 0, region |-> a.age_group, age_group |-> a.region,
     other_demographic |-> a.other_demographic, is_initialized |-> TRUE]

\* "Initialize citizen account"
InitCitizen(p, a) ==
    [name |-> a.name, governance_pool |-> p, is_eligible |-> TRUE,
     last_participation |-> 0, region |-> a.region, age_group |-> a.age_group,
     other_demographic |-> a.other_demographic, is_initialized |-> TRUE]

\* InitIndex that resets the page whether it is new or not.
InitIndexAlways(idx, p) == [governance_pool |-> p, citizens |-> <<>>, count |-> 0]

\* InitIndex that leaves a new page as it finds it.
InitIndexKeep(idx, p) == idx

\* "Initialize citizen index if it's new"
InitIndex(idx, p) ==
    IF idx.governance_pool = DefaultKey
    THEN [governance_pool |-> p, citizens |-> <<>>, count |-> 0]
    ELSE idx

\* IndexFull with > for >=.
IndexFullOffByOne(idx) == Len(idx.citizens) > MAX_CITIZENS_PER_INDEX

\* The capacity test of "Add citizen to the index".
IndexFull(idx) == Len(idx.citizens) >= MAX_CITIZENS_PER_INDEX

\* PushCitizen without the increment of count.
PushCitizenNoCount(idx, m) == [idx EXCEPT !.citizens = Append(@, m)]

\* citizens.push(new_member.key()); count += 1
PushCitizen(idx, m) ==
    [idx EXCEPT !.citizens = Append(@, m), !.count = @ + 1]

\* UpdatePool without the increment of total_citizens.
UpdatePoolStale(gp) ==
    [total_citizens |-> gp.total_citizens,
     total_citizen_indices |->
         IF gp.total_citizens % MAX_CITIZENS_PER_INDEX = 0
         THEN gp.total_citizen_indices + 1
         ELSE gp.total_citizen_indices]

\* UpdatePool that tests the counter as it was before the increment.
UpdatePoolPre(gp) ==
    [total_citizens |-> gp.total_citizens + 1,
     total_citizen_indices |->
         IF gp.total_citizens % MAX_CITIZENS_PER_INDEX = 0
         THEN gp.total_citizen_indices + 1
         ELSE gp.total_citizen_indices]

\* "Update governance pool" and "Check if we need to create a new index"
UpdatePool(gp) ==
    LET n == gp.total_citizens + 1
    IN  [total_citizens |-> n,
         total_citizen_indices |->
             IF n % MAX_CITIZENS_PER_INDEX = 0
             THEN gp.total_citizen_indices + 1
             ELSE gp.total_citizen_indices]

\* MarkUsed without the assignment of used_by.
MarkUsedAnonymous(inv, m) == [inv EXCEPT !.is_used = TRUE]

\* "Mark the invite as used"
MarkUsed(inv, m) == [inv EXCEPT !.is_used = TRUE, !.used_by = m]

\* Emitted with the amount left at its default.
EmittedNoAmount(p, m) == [governance_pool |-> p, citizen |-> m, token_amount |-> 0]

\* emit!(CitizenAddedToGovernance { .. })
Emitted(p, m) == [governance_pool |-> p, citizen |-> m, token_amount |-> TokenAmount(m)]

\* citizen_account as the init constraint has created it, before the handler
\* writes it.
BlankCitizen ==
    [name |-> <<>>, governance_pool |-> DefaultKey, is_eligible |-> FALSE,
     last_participation |-> 0, region |-> 0, age_group |-> 0,
     other_demographic |-> 0, is_initialized |-> FALSE]

\* The handler on its in-memory accounts: the result, and the accounts as the
\* handler has written them when it returns, early or not.
Handler(p, i, m, k, a) ==
    LET v    == ValidateInput(a)
        idx1 == InitIndex(index[p][k], p)
    IN  IF v # "Ok"
        THEN [result |-> v, pool |-> pool[p], invite |-> invite[i],
              citizen |-> BlankCitizen, index |-> index[p][k], emitted |-> <<>>]
        ELSE IF IndexFull(idx1)
        THEN [result |-> "CitizenIndexFull", pool |-> pool[p], invite |-> invite[i],
              citizen |-> InitCitizen(p, a), index |-> idx1, emitted |-> <<>>]
        ELSE [result |-> "Ok", pool |-> UpdatePool(pool[p]), invite |-> MarkUsed(invite[i], m),
              citizen |-> InitCitizen(p, a), index |-> PushCitizen(idx1, m),
              emitted |-> <<Emitted(p, m)>>]

\* What the runtime keeps of a transaction: everything when it returned Ok,
\* nothing when it returned an error.
Committed(result) == result = "Ok"

\* ------------------------------------------------------------------ actions

\* One use_governance_invite transaction: new_member m redeems invite i
\* against pool p, passing page k of p as citizen_index.
Transaction(p, i, m, k, a) ==
    LET acc == TryAccounts(p, i, m, k)
        h   == Handler(p, i, m, k, a)
        res == IF acc # "Ok" THEN acc ELSE h.result
        ok  == acc = "Ok" /\ Committed(h.result)
    IN  /\ last = NoCall
        /\ last' = [pool |-> p, invite |-> i, member |-> m, page |-> k, args |-> a,
                    result |-> res, emitted |-> IF ok THEN h.emitted ELSE <<>>]
        /\ IF ok
           THEN /\ pool' = [pool EXCEPT ![p] = h.pool]
                /\ invite' = [invite EXCEPT ![i] = h.invite]
                /\ citizen' = citizen @@ (<<p, m>> :> h.citizen)
                /\ index' = [index EXCEPT ![p][k] = h.index]
           ELSE UNCHANGED <<pool, invite, citizen, index>>
        /\ UNCHANGED now

\* A transaction submitted on its own.
UseGovernanceInvite(p, i, m, k, a) ==
    /\ inflight = {}
    /\ Transaction(p, i, m, k, a)
    /\ UNCHANGED inflight

\* The runtime takes one of the transactions in flight, in any order, and
\* runs it as a whole: transactions that write the same accounts are run
\* one after the other.
RunInFlight ==
    \E t \in inflight :
        /\ t.result = "Pending"
        /\ Transaction(t.pool, t.invite, t.member, t.page, t.args)
        /\ inflight' = (inflight \ {t}) \cup {[t EXCEPT !.result = last'.result]}

\* The result of the transaction has been handed to the client; the next
\* transaction can run (the runtime runs the transactions on a pool one
\* after the other).
Return ==
    /\ last # NoCall
    /\ last' = NoCall
    /\ UNCHANGED <<now, pool, invite, citizen, index, inflight>>

\* The clock advances.
Tick ==
    /\ last = NoCall
    /\ now < MaxTime
    /\ now' = now + 1
    /\ UNCHANGED <<pool, invite, citizen, index, last, inflight>>

\* The invites issued before the first redemption.
IssuedInvites ==
    [i \in Invites |->
        [governance_pool |-> IF i = "i4" THEN "p2" ELSE "p1",
         is_used |-> FALSE, used_by |-> None,
         expires_at |-> IF i = "i1" THEN 0 ELSE MaxTime]]

Init ==
    /\ now = 0
    /\ pool = [p \in Pools |-> EmptyPool]
    /\ invite = IssuedInvites
    /\ citizen = <<>>
    /\ index = [p \in Pools |-> [k \in PageIdx |-> BlankIndex]]
    /\ last = NoCall
    /\ inflight = {}

Next ==
    \/ \E p \in Pools, i \in Invites, m \in Members, k \in PageIdx, a \in Args :
          UseGovernanceInvite(p, i, m, k, a)
    \/ Return
    \/ Tick

Spec == Init /\ [][Next]_vars

\* Page 0 of pool p1 as another instruction of the program can have left it,
\* holding n participants registered earlier.
OpenIndex(n) ==
    [governance_pool |-> "p1", citizens |-> [j \in 1..n |-> Outsider], count |-> n]

\* The pool counter lags the index: page 0 of p1 already holds participants
\* that total_citizens does not count (the skew between the counter and the
\* page that the capacity test of the handler guards against).
InitOpen ==
    /\ now = 0
    /\ pool = [p \in Pools |-> EmptyPool]
    /\ invite = IssuedInvites
    /\ citizen = <<>>
    /\ \E n \in 1..MAX_CITIZENS_PER_INDEX :
          index = [p \in Pools |-> [k \in PageIdx |->
                      IF p = "p1" /\ k = 0 THEN OpenIndex(n) ELSE BlankIndex]]
    /\ last = NoCall
    /\ inflight = {}

SpecOpen == InitOpen /\ [][Next]_vars

\* The subsets of S that have n elements.
RECURSIVE KSubsets(_, _)
KSubsets(S, n) ==
    IF n = 0 THEN {{}}
    ELSE UNION {{T \cup {x} : T \in KSubsets(S \ {x}, n - 1)} : x \in S}

\* The transactions that clients can submit with invite i while the pools
\* are empty: any pool, participant and arguments, and the page that the
\* counter of the pool selects at that time.
Requests(i) ==
    {[pool |-> p, invite |-> i, member |-> m, page |-> PageIndexOf(EmptyPool.total_citizens),
      args |-> a, result |-> "Pending"] : p \in Pools, m \in Members, a \in Args}

\* InFlight transactions on one unused invite are in flight together.
InitConc ==
    /\ now = 0
    /\ pool = [p \in Pools |-> EmptyPool]
    /\ invite = IssuedInvites
    /\ citizen = <<>>
    /\ index = [p \in Pools |-> [k \in PageIdx |-> BlankIndex]]
    /\ last = NoCall
    /\ \E i \in Invites : inflight \in KSubsets(Requests(i), InFlight)

NextConc ==
    \/ RunInFlight
    \/ Return

SpecConc == InitConc /\ [][NextConc]_vars

\* ------------------------------------------------------------- properties

\* A step that runs a transaction, and its two outcomes.
Called == last = NoCall /\ last' # NoCall
Succeeded == Called /\ last'.result = "Ok"
Failed == Called /\ last'.result # "Ok"

\* ceil(a / b)
CeilDiv(a, b) == (a + b - 1) \div b

\* The participant of transaction c has no Citizen account in the pool of c.
FreshCitizen(c) == <<c.pool, c.member>> \notin DOMAIN citizen

\* The invite of transaction c belongs to the pool of c.
OwnPool(c) == invite[c.invite].governance_pool = c.pool

\* The invite of transaction c satisfies the three conditions of invite validation.
InviteValid(c) ==
    /\ OwnPool(c)
    /\ ~invite[c.invite].is_used
    /\ now <= invite[c.invite].expires_at

\* The page passed by transaction c is the one the counter of the pool selects.
SelectedPage(c) == c.page = pool[c.pool].total_citizens \div MAX_CITIZENS_PER_INDEX

\* The arguments of transaction c are within their bounds.
NameTooLong(c) == Len(c.args.name) > MAX_NAME_LENGTH
BadDemographic(c) ==
    c.args.region >= 8 \/ c.args.age_group >= 5 \/ c.args.other_demographic >= 4
InputValid(c) == ~NameTooLong(c) /\ ~BadDemographic(c)

\* C1: in every state reached by redemptions from empty pools,
\* total_citizen_indices = ceil(total_citizens / PAGE_SIZE).
C1_IndicesAreCeiling ==
    \A p \in Pools :
        pool[p].total_citizen_indices = CeilDiv(pool[p].total_citizens, MAX_CITIZENS_PER_INDEX)

\* C2: a successful redemption creates exactly one Citizen account, the one
\* of (pool, participant), which did not exist, leaves the other Citizen
\* accounts as they are and adds exactly 1 to total_citizens of the pool (and
\* nothing to that of another pool); a failed redemption changes neither
\* total_citizens nor the Citizen accounts.
C2_OneCitizenPerRedemption ==
    [][ /\ Succeeded =>
            /\ FreshCitizen(last')
            /\ DOMAIN citizen' = DOMAIN citizen \cup {<<last'.pool, last'.member>>}
            /\ \A x \in DOMAIN citizen : citizen'[x] = citizen[x]
            /\ \A p \in Pools :
                  pool'[p].total_citizens =
                      pool[p].total_citizens + (IF p = last'.pool THEN 1 ELSE 0)
        /\ Failed =>
            /\ citizen' = citizen
            /\ \A p \in Pools : pool'[p].total_citizens = pool[p].total_citizens
      ]_vars

\* C2, witness: a second redemption of a pool has succeeded.
C2_Witness ==
    /\ last.result = "Ok"
    /\ <<last.pool, last.member>> \in DOMAIN citizen
    /\ pool[last.pool].total_citizens = 2
    /\ Cardinality(DOMAIN citizen) >= 2

\* C3, as stated: every redemption attempt with an invite that is already
\* used fails with InviteAlreadyUsed and changes no account.
C3_AsStated ==
    [][ (Called /\ invite[last'.invite].is_used) =>
            (last'.result = "InviteAlreadyUsed" /\ UNCHANGED accounts) ]_vars

\* C3, amended: every redemption attempt with an invite that is already
\* used fails and changes no account; it fails with InviteAlreadyUsed when
\* it is made against the pool of the invite by a participant that has no
\* Citizen account in that pool.
C3_UsedInviteRejected ==
    [][ (Called /\ invite[last'.invite].is_used) =>
            /\ last'.result # "Ok"
            /\ UNCHANGED accounts
            /\ (OwnPool(last') /\ FreshCitizen(last')) => last'.result = "InviteAlreadyUsed"
      ]_vars

\* C3, witness: another participant than the one that used the invite has
\* been refused with InviteAlreadyUsed.
C3_Witness ==
    /\ last.result = "InviteAlreadyUsed"
    /\ invite[last.invite].is_used
    /\ invite[last.invite].used_by # last.member

\* C4, as stated: a redemption of an unused invite of the right pool is
\* rejected with InviteExpired exactly when the time is greater than
\* expires_at, and the rejection changes no account.
C4_AsStated ==
    [][ (Called /\ OwnPool(last') /\ ~invite[last'.invite].is_used) =>
            /\ last'.result = "InviteExpired" <=> now > invite[last'.invite].expires_at
            /\ last'.result = "InviteExpired" => UNCHANGED accounts
      ]_vars

\* C4, amended: a redemption of an unused invite of the right pool by a
\* participant that has no Citizen account in that pool is rejected with
\* InviteExpired exactly when the time is greater than expires_at (not at
\* expires_at), and the rejection changes no account.
C4_ExpiredExactlyAfter ==
    [][ (Called /\ OwnPool(last') /\ ~invite[last'.invite].is_used /\ FreshCitizen(last')) =>
            /\ last'.result = "InviteExpired" <=> now > invite[last'.invite].expires_at
            /\ last'.result = "InviteExpired" => UNCHANGED accounts
      ]_vars

\* C4, witness: an unused invite has been refused as expired.
C4_Witness ==
    /\ last.result = "InviteExpired"
    /\ ~invite[last.invite].is_used
    /\ now > invite[last.invite].expires_at

\* C5, as stated: a redemption with an invite of another pool fails with
\* InvalidInvite and changes no account.
C5_AsStated ==
    [][ (Called /\ ~OwnPool(last')) =>
            (last'.result = "InvalidInvite" /\ UNCHANGED accounts) ]_vars

\* C5, amended: a redemption with an invite of another pool fails and
\* changes no account (an invite never registers a citizen in a pool other
\* than its own); it fails with InvalidInvite when the participant has no
\* Citizen account in the pool redeemed against.
C5_ForeignInviteRejected ==
    [][ /\ (Called /\ ~OwnPool(last')) =>
            /\ last'.result # "Ok"
            /\ UNCHANGED accounts
            /\ FreshCitizen(last') => last'.result = "InvalidInvite"
        /\ Succeeded => invite[last'.invite].governance_pool = citizen'[<<last'.pool, last'.member>>].governance_pool
      ]_vars

\* C5, witness: an invite has been refused by a pool that is not its own.
C5_Witness ==
    /\ last.result = "InvalidInvite"
    /\ invite[last.invite].governance_pool # last.pool

\* C6, as stated: a redemption with a name longer than MAX_NAME_LENGTH
\* fails with InvalidInput, one with region >= 8, age_group >= 5 or
\* other_demographic >= 4 fails with InvalidDemographic, and neither
\* changes an account.
C6_AsStated ==
    [][ Called =>
            /\ NameTooLong(last') => (last'.result = "InvalidInput" /\ UNCHANGED accounts)
            /\ BadDemographic(last') => (last'.result = "InvalidDemographic" /\ UNCHANGED accounts)
      ]_vars

\* C6, amended: a redemption with a name longer than MAX_NAME_LENGTH, or
\* with region >= 8, age_group >= 5 or other_demographic >= 4, fails and
\* changes no account; when it passes account validation (no Citizen account
\* of the participant in the pool, a valid invite, the selected page) it
\* fails with InvalidInput for a name that is too long, and with
\* InvalidDemographic for a name that is not and a demographic out of range.
C6_InvalidInputRejected ==
    [][ (Called /\ ~InputValid(last')) =>
            /\ last'.result # "Ok"
            /\ UNCHANGED accounts
            /\ (FreshCitizen(last') /\ InviteValid(last') /\ SelectedPage(last')) =>
                   last'.result = (IF NameTooLong(last') THEN "InvalidInput" ELSE "InvalidDemographic")
      ]_vars

\* C6, witness: a redemption with a valid name and other_demographic = 4 has
\* been refused with InvalidDemographic, and its invite is still unused.
C6_Witness ==
    /\ last.result = "InvalidDemographic"
    /\ last.args.other_demographic = 4
    /\ ~invite[last.invite].is_used

\* C7: a successful redemption adds 1 to total_citizen_indices of its pool
\* when the new total_citizens is a multiple of PAGE_SIZE, and otherwise
\* leaves it as it is.
C7_IndicesStepAtMultiples ==
    [][ Succeeded =>
            pool'[last'.pool].total_citizen_indices =
                pool[last'.pool].total_citizen_indices
                + (IF pool'[last'.pool].total_citizens % MAX_CITIZENS_PER_INDEX = 0 THEN 1 ELSE 0)
      ]_vars

\* C7, witness: the redemption that made total_citizens = PAGE_SIZE has
\* made total_citizen_indices = 1.
C7_Witness ==
    /\ last.result = "Ok"
    /\ pool[last.pool].total_citizens = MAX_CITIZENS_PER_INDEX
    /\ pool[last.pool].total_citizen_indices = 1

\* C8: a successful redemption on a page whose pool reference is the
\* default key leaves the page with the pool as its reference, the
\* participant as its only entry and count = 1.
C8_FreshPageInitialised ==
    [][ (Succeeded /\ index[last'.pool][last'.page].governance_pool = DefaultKey) =>
            index'[last'.pool][last'.page] =
                [governance_pool |-> last'.pool, citizens |-> <<last'.member>>, count |-> 1]
      ]_vars

\* C8, witness: the first redemption on the second page of a pool has
\* succeeded.
C8_Witness ==
    /\ last.result = "Ok"
    /\ last.page = 1
    /\ index[last.pool][1] = [governance_pool |-> last.pool, citizens |-> <<last.member>>, count |-> 1]
    /\ index[last.pool][0].count = MAX_CITIZENS_PER_INDEX

\* C9, as stated: a redemption that passes invite validation and input
\* validation and passes a page that holds PAGE_SIZE entries fails with
\* CitizenIndexFull and changes no account.
C9_AsStated ==
    [][ (Called /\ InviteValid(last') /\ InputValid(last')
            /\ Len(index[last'.pool][last'.page].citizens) = MAX_CITIZENS_PER_INDEX) =>
            (last'.result = "CitizenIndexFull" /\ UNCHANGED accounts) ]_vars

\* C9, amended: a redemption that passes invite validation and input
\* validation and passes a page that holds PAGE_SIZE entries fails and
\* changes no account (no Citizen account, the page, the counters and the
\* invite as before); it fails with CitizenIndexFull when the participant
\* has no Citizen account in the pool and the page is the one the counter of
\* the pool selects.
C9_FullPageRejected ==
    [][ (Called /\ InviteValid(last') /\ InputValid(last')
            /\ Len(index[last'.pool][last'.page].citizens) = MAX_CITIZENS_PER_INDEX) =>
            /\ last'.result # "Ok"
            /\ UNCHANGED accounts
            /\ ~invite'[last'.invite].is_used
            /\ (FreshCitizen(last') /\ SelectedPage(last')) => last'.result = "CitizenIndexFull"
      ]_vars

\* C9, witness: a redemption has been refused with CitizenIndexFull.
C9_Witness ==
    /\ last.result = "CitizenIndexFull"
    /\ Len(index[last.pool][last.page].citizens) = MAX_CITIZENS_PER_INDEX
    /\ <<last.pool, last.member>> \notin DOMAIN citizen
    /\ ~invite[last.invite].is_used

\* C10: from empty pools no redemption fails with CitizenIndexFull (every
\* redemption that reaches the capacity test has passed the page selected
\* by the counter of the pool).
C10_NeverIndexFull == last.result # "CitizenIndexFull"

\* C10, witness: a redemption has succeeded on the second page of a pool,
\* after the first page was filled.
C10_Witness ==
    /\ last.result = "Ok"
    /\ last.page = 1
    /\ pool[last.pool].total_citizens = MAX_CITIZENS_PER_INDEX + 1
    /\ Len(index[last.pool][0].citizens) = MAX_CITIZENS_PER_INDEX

\* The sum of f over the set S.
RECURSIVE SumOver(_, _)
SumOver(f, S) ==
    IF S = {} THEN 0
    ELSE LET x == CHOOSE y \in S : TRUE IN f[x] + SumOver(f, S \ {x})

\* The citizens of all pools together.
AllCitizens == SumOver([p \in Pools |-> pool[p].total_citizens], Pools)

\* The transactions in flight that have succeeded.
Winners == {t \in inflight : t.result = "Ok"}

\* C11, as stated: of the transactions in flight on one unused invite, run
\* one after the other, at most one succeeds, every other one fails with
\* InviteAlreadyUsed, and total_citizens has grown by exactly 1.
C11_AsStated ==
    (\A t \in inflight : t.result # "Pending") =>
        /\ Cardinality(Winners) <= 1
        /\ \A t \in inflight \ Winners : t.result = "InviteAlreadyUsed"
        /\ AllCitizens = 1

\* C11, amended: of the transactions in flight on one unused invite, run
\* one after the other, at most one succeeds, and total_citizens grows by 1
\* when one does and not at all when none does; every one that runs after
\* the one that succeeded fails and changes no account, with
\* InviteAlreadyUsed when it is made against the pool of the invite by a
\* participant that has no Citizen account in that pool.
C11_OneWinner ==
    /\ [](Cardinality(Winners) <= 1 /\ AllCitizens = Cardinality(Winners))
    /\ [][ (Called /\ Winners # {}) =>
              /\ last'.result # "Ok"
              /\ UNCHANGED accounts
              /\ (OwnPool(last') /\ FreshCitizen(last')) => last'.result = "InviteAlreadyUsed"
        ]_vars

\* C11, witness: every transaction in flight has run, one has succeeded and
\* another has been refused with InviteAlreadyUsed.
C11_Witness ==
    /\ \A t \in inflight : t.result # "Pending"
    /\ \E t, u \in inflight : t.result = "Ok" /\ u.result = "InviteAlreadyUsed"
    /\ AllCitizens = 1

\* C12: an invite that is used stays used, keeps its used_by, and no later
\* redemption with it succeeds.
C12_InviteTerminal ==
    [][ \A i \in Invites :
            invite[i].is_used =>
                /\ invite'[i].is_used
                /\ invite'[i].used_by = invite[i].used_by
                /\ ~(Succeeded /\ last'.invite = i)
      ]_vars

\* C12, witness: the participant that used an invite has tried it again,
\* has been refused, and the invite is as it was.
C12_Witness ==
    /\ last.result \notin {"Ok", None}
    /\ invite[last.invite].is_used
    /\ invite[last.invite].used_by = last.member

\* C13: a successful redemption emits exactly one CitizenAddedToGovernance
\* event, with the pool, the participant and the token balance of the
\* participant; a failed redemption emits none.
C13_OneEventPerSuccess ==
    /\ last.result = "Ok" =>
            last.emitted = <<[governance_pool |-> last.pool, citizen |-> last.member,
                              token_amount |-> TokenAmount(last.member)]>>
    /\ last.result # "Ok" => last.emitted = <<>>

\* C13, witness: a participant with a balance of 5 has redeemed an invite and
\* the one event of the transaction carries 5.
C13_Witness ==
    /\ last.result = "Ok"
    /\ Len(last.emitted) = 1
    /\ last.emitted[1].token_amount = 5
    /\ TokenAmount(last.member) = 5

\* The positions of participant m in the pages of pool p.
Entries(p, m) ==
    {<<k, j>> \in PageIdx \X (1..MAX_CITIZENS_PER_INDEX) :
        j <= Len(index[p][k].citizens) /\ index[p][k].citizens[j] = m}

\* C14: the participant of every Citizen account is at exactly one position
\* of the pages of its pool, and every identifier in a page of a pool has a
\* Citizen account of that pool.
C14_OneEntryPerCitizen ==
    \A p \in Pools :
        /\ \A m \in Members :
              <<p, m>> \in DOMAIN citizen =>
                  (Cardinality(Entries(p, m)) = 1 /\ citizen[<<p, m>>].governance_pool = p)
        /\ \A k \in PageIdx :
              \A j \in 1..Len(index[p][k].citizens) :
                  <<p, index[p][k].citizens[j]>> \in DOMAIN citizen

\* C14, witness: a pool has citizens on two pages, and one of them is a
\* citizen of the other pool too.
C14_Witness ==
    \E p \in Pools, q \in Pools, m \in Members :
        /\ p # q
        /\ Len(index[p][0].citizens) = MAX_CITIZENS_PER_INDEX
        /\ Len(index[p][1].citizens) = 1
        /\ <<p, m>> \in DOMAIN citizen
        /\ <<q, m>> \in DOMAIN citizen

\* The pages of pool p that hold PAGE_SIZE entries, and those that are initialized.
FullPages(p) == {k \in PageIdx : Len(index[p][k].citizens) = MAX_CITIZENS_PER_INDEX}
InitializedPages(p) == {k \in PageIdx : index[p][k].governance_pool # DefaultKey}

\* C15: total_citizen_indices is the number of pages that hold PAGE_SIZE
\* entries, which is floor(total_citizens / PAGE_SIZE).
C15_IndicesCountFullPages ==
    \A p \in Pools :
        /\ pool[p].total_citizen_indices = Cardinality(FullPages(p))
        /\ pool[p].total_citizen_indices = pool[p].total_citizens \div MAX_CITIZENS_PER_INDEX

\* C15, witness: two pages of a pool are initialized, one of them is full,
\* and total_citizen_indices = 1.
C15_Witness ==
    \E p \in Pools :
        /\ Cardinality(InitializedPages(p)) = 2
        /\ Cardinality(FullPages(p)) = 1
        /\ pool[p].total_citizen_indices = 1

\* C16: an invite is used exactly when its used_by is set; used_by is the
\* participant of the successful redemption of the invite, and that
\* participant has a Citizen account in the pool of the invite and an entry
\* in a page of that pool.
C16_UsedByRegistered ==
    /\ [](\A i \in Invites :
            /\ invite[i].is_used <=> invite[i].used_by # None
            /\ invite[i].is_used =>
                  /\ <<invite[i].governance_pool, invite[i].used_by>> \in DOMAIN citizen
                  /\ Entries(invite[i].governance_pool, invite[i].used_by) # {})
    /\ [][ Succeeded =>
              /\ ~invite[last'.invite].is_used
              /\ invite'[last'.invite].is_used
              /\ invite'[last'.invite].used_by = last'.member
        ]_vars

\* C16, witness: two invites of a pool are used, each by the citizen that
\* redeemed it.
C16_Witness ==
    \E i \in Invites, j \in Invites :
        /\ i # j
        /\ invite[i].is_used /\ invite[j].is_used
        /\ invite[i].governance_pool = invite[j].governance_pool
        /\ invite[i].used_by # invite[j].used_by
        /\ last.invite = j /\ last.result = "Ok" /\ invite[j].used_by = last.member

\* C17: count of every page is the length of its sequence, and the length
\* is at most PAGE_SIZE.
C17_CountMirrorsLength ==
    \A p \in Pools, k \in PageIdx :
        /\ index[p][k].count = Len(index[p][k].citizens)
        /\ Len(index[p][k].citizens) <= MAX_CITIZENS_PER_INDEX

\* C17, witness: a page holds PAGE_SIZE entries and its count is PAGE_SIZE.
C17_Witness ==
    \E p \in Pools, k \in PageIdx :
        /\ index[p][k].count = MAX_CITIZENS_PER_INDEX
        /\ Len(index[p][k].citizens) = MAX_CITIZENS_PER_INDEX

\* s is a prefix of t.
IsPrefix(s, t) == Len(s) <= Len(t) /\ SubSeq(t, 1, Len(s)) = s

\* C18: in every step the sequence of every page is a prefix of its
\* sequence after the step (so the sequence in an earlier state is a prefix
\* of that in any later state); a page that holds PAGE_SIZE entries is not
\* modified, and a redemption of its pool that succeeds passes a page of a
\* higher index.
C18_AppendOnlyNeverReopened ==
    [][ \A p \in Pools, k \in PageIdx :
            /\ IsPrefix(index[p][k].citizens, index'[p][k].citizens)
            /\ Len(index[p][k].citizens) = MAX_CITIZENS_PER_INDEX =>
                  /\ index'[p][k] = index[p][k]
                  /\ (Succeeded /\ last'.pool = p) => last'.page > k
      ]_vars

\* C18, witness: a redemption has succeeded on the second page of a pool
\* whose first page is full and does not hold the participant.
C18_Witness ==
    /\ last.result = "Ok"
    /\ last.page = 1
    /\ Len(index[last.pool][0].citizens) = MAX_CITIZENS_PER_INDEX
    /\ Entries(last.pool, last.member) = {<<1, 1>>}

\* C19: the Citizen account of a successful redemption holds the arguments,
\* the pool, is_eligible = true, last_participation = 0 and
\* is_initialized = true; every Citizen account has a name of at most
\* MAX_NAME_LENGTH bytes, region < 8, age_group < 5 and other_demographic < 4.
C19_CitizenHoldsArguments ==
    /\ [][ Succeeded =>
              citizen'[<<last'.pool, last'.member>>] =
                  [name |-> last'.args.name, region |-> last'.args.region,
                   age_group |-> last'.args.age_group,
                   other_demographic |-> last'.args.other_demographic,
                   governance_pool |-> last'.pool, is_eligible |-> TRUE,
                   last_participation |-> 0, is_initialized |-> TRUE]
        ]_vars
    /\ [](\A x \in DOMAIN citizen :
            /\ Len(citizen[x].name) <= MAX_NAME_LENGTH
            /\ citizen[x].region < 8
            /\ citizen[x].age_group < 5
            /\ citizen[x].other_demographic < 4)

\* C19, witness: a Citizen account holds the largest arguments that pass.
C19_Witness ==
    /\ last.result = "Ok"
    /\ citizen[<<last.pool, last.member>>].name = NameOfLen(MAX_NAME_LENGTH)
    /\ citizen[<<last.pool, last.member>>].region = 7
    /\ citizen[<<last.pool, last.member>>].age_group = 4
    /\ citizen[<<last.pool, last.member>>].other_demographic = 3

\* The entries of all pages of pool p together.
CountSum(p) == SumOver([k \in PageIdx |-> index[p][k].count], PageIdx)

\* C20: with a = floor(total_citizens / PAGE_SIZE), every page below a holds
\* PAGE_SIZE entries, page a holds total_citizens mod PAGE_SIZE entries and
\* is uninitialized when that is 0, every page above a is uninitialized, and
\* the counts of the pages add up to total_citizens.
C20_PagingInvariant ==
    \A p \in Pools :
        LET n == pool[p].total_citizens
            a == n \div MAX_CITIZENS_PER_INDEX
        IN  /\ \A k \in PageIdx :
                  /\ k < a => Len(index[p][k].citizens) = MAX_CITIZENS_PER_INDEX
                  /\ k = a => Len(index[p][k].citizens) = n % MAX_CITIZENS_PER_INDEX
                  /\ (k = a /\ n % MAX_CITIZENS_PER_INDEX = 0) => index[p][k] = BlankIndex
                  /\ k > a => index[p][k] = BlankIndex
            /\ CountSum(p) = n

\* C20, witness: a pool has PAGE_SIZE + 1 citizens, PAGE_SIZE on page 0 and
\* one on page 1.
C20_Witness ==
    \E p \in Pools :
        /\ pool[p].total_citizens = MAX_CITIZENS_PER_INDEX + 1
        /\ index[p][0].count = MAX_CITIZENS_PER_INDEX
        /\ index[p][1].count = 1

====
